---- MODULE Spec2Model ----
(***************************************************************************)
(* Model of scripts/import_cedict.py: the CC-CEDICT line parser, the tone  *)
(* converter (numbered pinyin -> diacritics), the tone stripper, the gloss *)
(* cleaner and the snapshot/classify/apply import run against the          *)
(* vocabulary table.                                                       *)
(*                                                                         *)
(* Text is a sequence of characters.  TLA+ strings are ASCII, so a         *)
(* character outside ASCII is written as an ASCII name:                    *)
(*   "ue" / "UE"        u-umlaut, lower and upper case                     *)
(*   "a^1" .. "a^4"     a with macron, acute, caron, grave (tone 1..4)     *)
(*   "A^1" .. "A^4"     the same in upper case; likewise e, i, o, u, ue    *)
(* Each such name is ONE character of the text.                            *)
(***************************************************************************)
EXTENDS Integers, Sequences, FiniteSets, TLC

VARIABLES
    token,        \* tone converter: the whitespace-free token under conversion
    result,       \* tone converter: what convert_syllable returned or raised
    stripped,     \* tone converter: strip_tones of the converted syllable
    keyed,        \* tone converter: the matching key built from it
    stage,        \* tone converter: position in convert -> strip -> key
    defs_raw,     \* gloss cleaner: the text between the first and last slash
    cleaned,      \* gloss cleaner: the list clean_definitions returned
    gstage        \* gloss cleaner: "raw" or "cleaned"

VARIABLES
    source,       \* the lines of the dictionary file, in file order
    store,        \* the committed rows of the vocabulary table
    pc,           \* per run: where main() is
    entries,      \* per run: the parsed candidates
    existing,     \* per run: the dict load_existing_entries returned
    update_rows,  \* per run: the update batch
    insert_rows,  \* per run: the insert batch
    updated,      \* per run: rows of update_rows executed so far
    inserted,     \* per run: rows of insert_rows executed so far
    tx_time,      \* per run: NOW() of the run's transaction
    clock,        \* the database clock
    next_uuid,    \* the identifiers uuid4() has not handed out yet
    store0,       \* history: the table before any run
    pre,          \* history, per run: the rows its SELECT returned
    seen          \* history, per run: the runs committed before its SELECT

toneVars == <<token, result, stripped, keyed, stage>>
glossVars == <<defs_raw, cleaned, gstage>>
runVars == <<pc, entries, existing, update_rows, insert_rows, updated, inserted,
             tx_time, pre, seen>>
dbVars == <<source, store, clock, next_uuid, store0>>
vars == <<toneVars, glossVars, runVars, dbVars>>

----------------------------------------------------------------------------
(* Characters *)

LowerAZ == {"a","b","c","d","e","f","g","h","i","j","k","l","m",
            "n","o","p","q","r","s","t","u","v","w","x","y","z"}

UpperAZ == {"A","B","C","D","E","F","G","H","I","J","K","L","M",
            "N","O","P","Q","R","S","T","U","V","W","X","Y","Z"}

DigitChars == {"0","1","2","3","4","5","6","7","8","9"}

\* int(match.group(2))
DigitValue(d) ==
    CASE d = "0" -> 0 [] d = "1" -> 1 [] d = "2" -> 2 [] d = "3" -> 3
      [] d = "4" -> 4 [] d = "5" -> 5 [] d = "6" -> 6 [] d = "7" -> 7
      [] d = "8" -> 8 [] d = "9" -> 9

\* The dict literal of convert_pinyin: vowel -> its four toned forms.
tone_map ==
    [ a  |-> <<"a^1", "a^2", "a^3", "a^4">>,
      e  |-> <<"e^1", "e^2", "e^3", "e^4">>,
      i  |-> <<"i^1", "i^2", "i^3", "i^4">>,
      o  |-> <<"o^1", "o^2", "o^3", "o^4">>,
      u  |-> <<"u^1", "u^2", "u^3", "u^4">>,
      ue |-> <<"ue^1", "ue^2", "ue^3", "ue^4">>,
      v  |-> <<"ue^1", "ue^2", "ue^3", "ue^4">> ]

\* The lower-case toned characters, each with its base letter (the
\* replacements dict of strip_tones).
replacements ==
    [ c \in {"a^1","a^2","a^3","a^4","e^1","e^2","e^3","e^4",
             "i^1","i^2","i^3","i^4","o^1","o^2","o^3","o^4",
             "u^1","u^2","u^3","u^4","ue^1","ue^2","ue^3","ue^4"} |->
        CASE c \in {"a^1","a^2","a^3","a^4"} -> "a"
          [] c \in {"e^1","e^2","e^3","e^4"} -> "e"
          [] c \in {"i^1","i^2","i^3","i^4"} -> "i"
          [] c \in {"o^1","o^2","o^3","o^4"} -> "o"
          [] c \in {"u^1","u^2","u^3","u^4"} -> "u"
          [] OTHER -> "ue" ]

\* Upper-case forms of the toned characters and of u-umlaut.
UpperOfSpecial ==
    [ c \in DOMAIN replacements \cup {"ue"} |->
        CASE c = "ue" -> "UE"
          [] c = "a^1" -> "A^1" [] c = "a^2" -> "A^2" [] c = "a^3" -> "A^3" [] c = "a^4" -> "A^4"
          [] c = "e^1" -> "E^1" [] c = "e^2" -> "E^2" [] c = "e^3" -> "E^3" [] c = "e^4" -> "E^4"
          [] c = "i^1" -> "I^1" [] c = "i^2" -> "I^2" [] c = "i^3" -> "I^3" [] c = "i^4" -> "I^4"
          [] c = "o^1" -> "O^1" [] c = "o^2" -> "O^2" [] c = "o^3" -> "O^3" [] c = "o^4" -> "O^4"
          [] c = "u^1" -> "U^1" [] c = "u^2" -> "U^2" [] c = "u^3" -> "U^3" [] c = "u^4" -> "U^4"
          [] c = "ue^1" -> "UE^1" [] c = "ue^2" -> "UE^2" [] c = "ue^3" -> "UE^3" [] c = "ue^4" -> "UE^4" ]

UpperOfAscii ==
    [ c \in LowerAZ |->
        CASE c = "a" -> "A" [] c = "b" -> "B" [] c = "c" -> "C" [] c = "d" -> "D"
          [] c = "e" -> "E" [] c = "f" -> "F" [] c = "g" -> "G" [] c = "h" -> "H"
          [] c = "i" -> "I" [] c = "j" -> "J" [] c = "k" -> "K" [] c = "l" -> "L"
          [] c = "m" -> "M" [] c = "n" -> "N" [] c = "o" -> "O" [] c = "p" -> "P"
          [] c = "q" -> "Q" [] c = "r" -> "R" [] c = "s" -> "S" [] c = "t" -> "T"
          [] c = "u" -> "U" [] c = "v" -> "V" [] c = "w" -> "W" [] c = "x" -> "X"
          [] c = "y" -> "Y" [] c = "z" -> "Z" ]

\* str.upper() on one character.
UpperChar(c) ==
    IF c \in LowerAZ THEN UpperOfAscii[c]
    ELSE IF c \in DOMAIN UpperOfSpecial THEN UpperOfSpecial[c]
    ELSE c

UpperSpecials == {UpperOfSpecial[c] : c \in DOMAIN UpperOfSpecial}

\* str.isupper() on one character.
IsUpperChar(c) == c \in UpperAZ \cup UpperSpecials

\* str.lower() on one character.
LowerChar(c) ==
    IF c \in UpperAZ THEN CHOOSE l \in LowerAZ : UpperOfAscii[l] = c
    ELSE IF c \in UpperSpecials
         THEN CHOOSE l \in DOMAIN UpperOfSpecial : UpperOfSpecial[l] = c
    ELSE c

\* str.lower() on a text.
LowerText(s) == [k \in 1..Len(s) |-> LowerChar(s[k])]

\* The character class [a-zA-Z] plus the two umlaut letters, of the regular
\* expression in convert_syllable.
IsSyllableLetter(c) == c \in LowerAZ \cup UpperAZ \cup {"ue", "UE"}

----------------------------------------------------------------------------
(* Text helpers *)

\* s[from..] (Python slice; 1-based here).
Drop(s, n) == SubSeq(s, n + 1, Len(s))

Take(s, n) == SubSeq(s, 1, n)

\* p is a prefix of s (str.startswith).
StartsWith(s, p) == Len(p) <= Len(s) /\ Take(s, Len(p)) = p

\* sub occurs in s at position k.
OccursAt(s, sub, k) ==
    k >= 1 /\ k + Len(sub) - 1 <= Len(s) /\ SubSeq(s, k, k + Len(sub) - 1) = sub

\* `sub in s`
Contains(s, sub) == \E k \in 1..Len(s) : OccursAt(s, sub, k)

\* s.index(c) for a single character c that occurs in s: first position.
IndexOf(s, c) == CHOOSE k \in 1..Len(s) : s[k] = c /\ \A j \in 1..(k - 1) : s[j] # c

\* str.replace(old, new): left to right, non-overlapping.
RECURSIVE Replace(_, _, _)
Replace(s, old, new) ==
    IF s = <<>> THEN <<>>
    ELSE IF StartsWith(s, old) THEN new \o Replace(Drop(s, Len(old)), old, new)
    ELSE <<s[1]>> \o Replace(Tail(s), old, new)

\* Remove every character of the set cs.
RemoveChars(s, cs) == SelectSeq(s, LAMBDA c : c \notin cs)

Whitespace == {" "}

\* str.strip()
RECURSIVE LStrip(_)
LStrip(s) == IF s # <<>> /\ s[1] \in Whitespace THEN LStrip(Tail(s)) ELSE s

RECURSIVE RStrip(_)
RStrip(s) ==
    IF s # <<>> /\ s[Len(s)] \in Whitespace THEN RStrip(Take(s, Len(s) - 1)) ELSE s

Strip(s) == RStrip(LStrip(s))

\* str.split(sep) for a one-character separator: the pieces between
\* separators, empty pieces kept.
RECURSIVE SplitOn(_, _)
SplitOn(s, sep) ==
    IF \A k \in 1..Len(s) : s[k] # sep THEN <<s>>
    ELSE LET k == IndexOf(s, sep)
         IN  <<Take(s, k - 1)>> \o SplitOn(Drop(s, k), sep)

\* str.split(): the maximal whitespace-free runs.
SplitWhitespace(s) == SelectSeq(SplitOn(s, " "), LAMBDA p : p # <<>>)

\* sep.join(parts)
RECURSIVE Join(_, _)
Join(parts, sep) ==
    IF parts = <<>> THEN <<>>
    ELSE IF Len(parts) = 1 THEN parts[1]
    ELSE parts[1] \o sep \o Join(Tail(parts), sep)

----------------------------------------------------------------------------
(* Tone converter *)

Returned(v) == [ok |-> TRUE, val |-> v]

\* An uncaught IndexError out of convert_syllable.
Raised == [ok |-> FALSE, val |-> <<>>]

\* Variant of VowelIdx without the a / e / ou priority.
VowelIdxLastOnly(lower) ==
    IF \E j \in 1..Len(lower) : lower[j] \in DOMAIN tone_map
    THEN CHOOSE j \in 1..Len(lower) :
            /\ lower[j] \in DOMAIN tone_map
            /\ \A k \in (j + 1)..Len(lower) : lower[k] \notin DOMAIN tone_map
    ELSE 0

\* Position the tone mark goes to, 0 standing for Python's -1: the first a,
\* else the first e, else (when "ou" occurs) the first o, else the last
\* character that is a key of tone_map.
VowelIdx(lower) ==
    IF Contains(lower, <<"a">>) THEN IndexOf(lower, "a")
    ELSE IF Contains(lower, <<"e">>) THEN IndexOf(lower, "e")
    ELSE IF Contains(lower, <<"o", "u">>) THEN IndexOf(lower, "o")
    ELSE IF \E j \in 1..Len(lower) : lower[j] \in DOMAIN tone_map
         THEN CHOOSE j \in 1..Len(lower) :
                 /\ lower[j] \in DOMAIN tone_map
                 /\ \A k \in (j + 1)..Len(lower) : lower[k] \notin DOMAIN tone_map
    ELSE 0

\* convert_syllable(syl)
convert_syllable(syl0) ==
    LET syl == Replace(Replace(syl0, <<"u", ":">>, <<"ue">>), <<"U", ":">>, <<"UE">>)
        n == Len(syl)
        matches == /\ n >= 2
                   /\ \A k \in 1..(n - 1) : IsSyllableLetter(syl[k])
                   /\ syl[n] \in DigitChars
    IN  IF ~matches THEN Returned(syl)
        ELSE LET letters == Take(syl, n - 1)
                 tone == DigitValue(syl[n])
                 lower == LowerText(letters)
                 vowel_idx == VowelIdx(lower)
             IN  IF tone = 5 \/ tone = 0 THEN Returned(letters)
                 ELSE IF vowel_idx = 0 \/ lower[vowel_idx] \notin DOMAIN tone_map
                      THEN Returned(letters)
                 ELSE IF tone - 1 >= Len(tone_map[lower[vowel_idx]])
                      THEN Raised
                 ELSE LET m == tone_map[lower[vowel_idx]][tone]
                          marked == IF IsUpperChar(letters[vowel_idx])
                                    THEN UpperChar(m) ELSE m
                      IN  Returned(Take(letters, vowel_idx - 1) \o <<marked>>
                                     \o Drop(letters, vowel_idx))

\* convert_pinyin(raw): every syllable converted, joined by one space; an
\* exception in any syllable leaves the call.
JoinConverted(conv) ==
    IF \E k \in 1..Len(conv) : ~conv[k].ok THEN Raised
    ELSE Returned(Join([k \in 1..Len(conv) |-> conv[k].val], <<" ">>))

ConvertEach(syllables) ==
    [k \in 1..Len(syllables) |-> convert_syllable(syllables[k])]

convert_pinyin(raw) == JoinConverted(ConvertEach(SplitWhitespace(raw)))

\* strip_tones(pinyin): the lower-case toned characters go to their base
\* letter, then the characters 1..5 are removed.
strip_tones(pinyin) ==
    RemoveChars([k \in 1..Len(pinyin) |->
                    IF pinyin[k] \in DOMAIN replacements
                    THEN replacements[pinyin[k]] ELSE pinyin[k]],
                {"1", "2", "3", "4", "5"})

\* strip_tones(p).lower().replace(" ", ""): the pronunciation half of the
\* matching key.
NormalizedKey(pinyin) == RemoveChars(LowerText(strip_tones(pinyin)), {" "})

----------------------------------------------------------------------------
(* The tone converter as a state machine: a token of a bracketed            *)
(* romanization is converted (parse_cedict_line), then stripped and keyed   *)
(* (the classification loop of main).                                       *)

MaxLetters == 3

\* Characters a token is drawn from: the vowels, v (the ASCII stand-in for
\* u-umlaut), a consonant, two capitals, and the colon of the u: escape.
TokenAlphabet == {"a", "e", "i", "o", "u", "v", "n", "A", "U", ":"}

SeqsUpTo(S, n) == UNION {[1..k -> S] : k \in 0..n}

\* A non-empty run of alphabet characters, then nothing or one decimal digit.
Tokens(n) ==
    {body \o tail : body \in SeqsUpTo(TokenAlphabet, n) \ {<<>>},
                    tail \in {<<>>} \cup {<<d>> : d \in DigitChars}}

InitToneVars ==
    /\ token \in Tokens(MaxLetters)
    /\ result = Returned(<<>>)
    /\ stripped = <<>>
    /\ keyed = <<>>
    /\ stage = "input"

\* parse_cedict_line: pinyin = convert_pinyin(pinyin_raw), one token.
ToneConvert ==
    /\ stage = "input"
    /\ result' = convert_syllable(token)
    /\ stage' = IF result'.ok THEN "converted" ELSE "raised"
    /\ UNCHANGED <<token, stripped, keyed>>

\* main: strip_tones(entry["pinyin"])
ToneStrip ==
    /\ stage = "converted"
    /\ stripped' = strip_tones(result.val)
    /\ stage' = "stripped"
    /\ UNCHANGED <<token, result, keyed>>

\* main: .lower().replace(" ", "") of the stripped form
ToneKey ==
    /\ stage = "stripped"
    /\ keyed' = NormalizedKey(result.val)
    /\ stage' = "keyed"
    /\ UNCHANGED <<token, result, stripped>>

----------------------------------------------------------------------------
(* Gloss cleaner.  A gloss text is a sequence of tokens: "/" , " " , "," ,  *)
(* the classifier marker "CL:" and words; a word stands for a run of       *)
(* characters that holds no whitespace, comma, slash or "CL:".             *)

\* [^\s,] of the inline-classifier pattern.
IsTokenChar(c) == c \notin Whitespace \cup {","}

\* Length of the longest prefix of s matching [^\s,]*
RECURSIVE TokenRun(_)
TokenRun(s) == IF s # <<>> /\ IsTokenChar(s[1]) THEN 1 + TokenRun(Tail(s)) ELSE 0

\* Length of the longest prefix of s matching (?:,[^\s,]+)*
RECURSIVE CommaGroups(_)
CommaGroups(s) ==
    IF Len(s) >= 2 /\ s[1] = "," /\ TokenRun(Tail(s)) >= 1
    THEN LET n == 1 + TokenRun(Tail(s)) IN n + CommaGroups(Drop(s, n))
    ELSE 0

\* Length of the match of \s*CL:[^\s,]+(?:,[^\s,]+)* at the start of s, 0 when
\* there is none.
ClassifierMatch(s) ==
    LET ws == Len(s) - Len(LStrip(s))
        rest == Drop(s, ws)
    IN  IF rest # <<>> /\ rest[1] = "CL:" /\ TokenRun(Tail(rest)) >= 1
        THEN LET run == TokenRun(Tail(rest))
             IN  ws + 1 + run + CommaGroups(Drop(rest, 1 + run))
        ELSE 0

\* re.sub(r"\s*CL:[^\s,]+(?:,[^\s,]+)*", "", d): every leftmost
\* non-overlapping match removed, in one pass.
RECURSIVE StripInlineClassifiers(_)
StripInlineClassifiers(d) ==
    IF d = <<>> THEN <<>>
    ELSE LET m == ClassifierMatch(d)
         IN  IF m > 0 THEN StripInlineClassifiers(Drop(d, m))
             ELSE <<d[1]>> \o StripInlineClassifiers(Tail(d))

PrefixCL == <<"CL:">>
PrefixVariantOf == <<"variant", " ", "of", " ">>
PrefixSeeAlso == <<"see", " ", "also", " ">>
PrefixAlsoWritten == <<"also", " ", "written", " ">>
PrefixOldVariantOf == <<"old", " ", "variant", " ", "of", " ">>

\* The body of the loop of clean_definitions for one part: <<d>> when the
\* part is kept (d its cleaned form), <<>> when it is skipped.
CleanPart(part) ==
    LET d == Strip(part)
    IN  IF d = <<>> THEN <<>>
        ELSE IF StartsWith(d, PrefixCL) THEN <<>>
        ELSE IF StartsWith(d, PrefixVariantOf) THEN <<>>
        ELSE IF StartsWith(d, PrefixSeeAlso) THEN <<>>
        ELSE IF StartsWith(d, PrefixAlsoWritten) THEN <<>>
        ELSE LET d2 == Strip(StripInlineClassifiers(d))
             IN  IF StartsWith(d2, PrefixOldVariantOf) THEN <<>>
                 ELSE IF d2 # <<>> THEN <<d2>>
                 ELSE <<>>

\* clean_definitions(raw)
RECURSIVE CleanParts(_)
CleanParts(parts) ==
    IF parts = <<>> THEN <<>>
    ELSE CleanPart(parts[1]) \o CleanParts(Tail(parts))

clean_definitions(raw) == CleanParts(SplitOn(raw, "/"))

----------------------------------------------------------------------------
(* The gloss cleaner as a state machine. *)

MaxPieces == 4

\* What a definition fragment is assembled from.
GlossPieces ==
    { <<"x">>, <<" ">>, <<" ", "CL:", "x">>, <<"CL:">>, <<",", "x">>,
      <<"variant">>, <<" ", "of", " ">>, <<"old", " ">>,
      <<"see", " ", "also", " ">>, <<"also", " ", "written", " ">> }

RECURSIVE Flatten(_)
Flatten(ps) == IF ps = <<>> THEN <<>> ELSE ps[1] \o Flatten(Tail(ps))

Fragments(n) == {Flatten(ps) : ps \in SeqsUpTo(GlossPieces, n)}

\* One fragment of up to n pieces, alone or followed by a second fragment of
\* at most one piece.
GlossBlobs(n) ==
    Fragments(n) \cup {f \o <<"/">> \o g : f \in Fragments(n), g \in Fragments(1)}

InitGlossVars ==
    /\ defs_raw \in GlossBlobs(MaxPieces)
    /\ cleaned = <<>>
    /\ gstage = "raw"

\* parse_cedict_line: definitions = clean_definitions(defs_raw)
GlossClean ==
    /\ gstage = "raw"
    /\ cleaned' = clean_definitions(defs_raw)
    /\ gstage' = "cleaned"
    /\ UNCHANGED defs_raw

----------------------------------------------------------------------------
(* Entry parser *)

\* What parse_cedict_line returns for a comment, a blank line, a line the
\* grammar does not match, or a line with no definition left.
None == [none |-> TRUE]

\* parse_cedict_line(line).  A line is the outcome of the regular expression
\* on it: match = FALSE for a blank line, a comment or a grammar mismatch,
\* and otherwise the four groups.  An exception of convert_pinyin leaves the
\* call.
Candidate(line, pinyin, definitions) ==
    IF ~pinyin.ok THEN Raised
    ELSE IF definitions = <<>> THEN Returned(None)
    ELSE Returned([none |-> FALSE,
                   traditional |-> line.traditional,
                   simplified |-> line.simplified,
                   pinyin |-> pinyin.val,
                   english |-> Join(definitions, <<";", " ">>)])

parse_cedict_line(line) ==
    IF ~line.match THEN Returned(None)
    ELSE Candidate(line, convert_pinyin(line.pinyin_raw),
                   clean_definitions(line.defs_raw))

\* The parsing loop of main: the candidates of the lines that parse, in file
\* order; an exception in any line leaves main.
Collected(parsed) ==
    IF \E k \in 1..Len(parsed) : ~parsed[k].ok THEN Raised
    ELSE Returned(SelectSeq([k \in 1..Len(parsed) |-> parsed[k].val],
                            LAMBDA e : ~e.none))

ParseLines(lines) ==
    Collected([k \in 1..Len(lines) |-> parse_cedict_line(lines[k])])

----------------------------------------------------------------------------
(* Identity matcher *)

\* The key load_existing_entries gives a row:
\* (chinese, (pinyin_no_tones or strip_tones(pinyin)).lower().replace(" ", ""))
\* A NULL and an empty pinyin_no_tones are both <<>>.
RowKey(row) ==
    << row.chinese,
       RemoveChars(LowerText(IF row.pinyin_no_tones # <<>>
                             THEN row.pinyin_no_tones
                             ELSE strip_tones(row.pinyin)), {" "}) >>
\* Variant of EntryKey without .lower().replace(" ", "").
EntryKeyNotNormalized(entry) == << entry.simplified, strip_tones(entry.pinyin) >>

\* The key main gives a candidate.
EntryKey(entry) == << entry.simplified, NormalizedKey(entry.pinyin) >>

\* The dicts load_existing_entries can return for the rows a SELECT without
\* ORDER BY yields: one {id, hsk_level} per key; among rows sharing a key the
\* one that comes last in the result wins, and the result order is the
\* database's choice.
Snapshots(rows) ==
    LET keys == {RowKey(row) : row \in rows}
    IN  { [k \in keys |-> [id |-> pick[k].id, hsk_level |-> pick[k].hsk_level]] :
            pick \in {f \in [keys -> rows] : \A k \in keys : RowKey(f[k]) = k} }

UpdateTuple(entry, ex) ==
    [english |-> entry.english, traditional |-> entry.traditional, id |-> ex.id]

InsertTuple(entry, id) ==
    [id |-> id,
     chinese |-> entry.simplified,
     traditional |-> entry.traditional,
     pinyin |-> entry.pinyin,
     pinyin_no_tones |-> strip_tones(entry.pinyin),
     english |-> entry.english,
     hsk_level |-> 0]

\* The classification loop of main over the candidates ents, given the
\* snapshot ex; uuid is the next identifier uuid4() returns.
RECURSIVE ClassifyLoop(_, _, _, _, _)
ClassifyLoop(ents, ex, uuid, upd, ins) ==
    IF ents = <<>>
    THEN [update_rows |-> upd, insert_rows |-> ins, next_uuid |-> uuid]
    ELSE LET entry == ents[1]
             key == EntryKey(entry)
         IN  IF key \in DOMAIN ex
             THEN ClassifyLoop(Tail(ents), ex, uuid,
                               Append(upd, UpdateTuple(entry, ex[key])), ins)
             ELSE ClassifyLoop(Tail(ents), ex, uuid + 1,
                               upd, Append(ins, InsertTuple(entry, uuid)))

----------------------------------------------------------------------------
(* Store writes *)
\* Variant of ExecUpdate whose SET list also names hsk_level.
ExecUpdateResettingLevel(rows, u, t) ==
    { IF row.id = u.id
      THEN [row EXCEPT !.english = u.english,
                       !.traditional = u.traditional,
                       !.hsk_level = 0,
                       !.updated_at = t]
      ELSE row : row \in rows }

\* UPDATE vocabulary SET english, traditional, updated_at = NOW() WHERE id
ExecUpdate(rows, u, t) ==
    { IF row.id = u.id
      THEN [row EXCEPT !.english = u.english,
                       !.traditional = u.traditional,
                       !.updated_at = t]
      ELSE row : row \in rows }

\* The value a column not named by the INSERT takes.
ColumnDefault == "DEFAULT"

\* INSERT INTO vocabulary (id, chinese, traditional, pinyin, pinyin_no_tones,
\* english, hsk_level)
ExecInsert(rows, n, t) ==
    rows \cup { [id |-> n.id,
                 chinese |-> n.chinese,
                 traditional |-> n.traditional,
                 pinyin |-> n.pinyin,
                 pinyin_no_tones |-> n.pinyin_no_tones,
                 english |-> n.english,
                 hsk_level |-> n.hsk_level,
                 example_sentences |-> ColumnDefault,
                 updated_at |-> t] }

RECURSIVE ExecUpdates(_, _, _)
ExecUpdates(rows, us, t) ==
    IF us = <<>> THEN rows ELSE ExecUpdates(ExecUpdate(rows, us[1], t), Tail(us), t)

RECURSIVE ExecInserts(_, _, _)
ExecInserts(rows, ns, t) ==
    IF ns = <<>> THEN rows ELSE ExecInserts(ExecInsert(rows, ns[1], t), Tail(ns), t)

\* The table with the first nu updates and the first ni inserts of run r
\* executed on it.
Executed(rows, r, nu, ni) ==
    ExecInserts(ExecUpdates(rows, Take(update_rows[r], nu), tx_time[r]),
                Take(insert_rows[r], ni), tx_time[r])

----------------------------------------------------------------------------
(* The import run: main().  Each run is one process with one database      *)
(* connection; everything it writes is one transaction, committed by the   *)
(* single conn.commit() after the last batch.                              *)

Runs == {1, 2}

MaxLines == 2

\* Rows per execute_batch call (batch_size in main; 500 there, scaled down
\* so that a batch list of MaxLines rows spans several chunks).
batch_size == 1

Min(a, b) == IF a <= b THEN a ELSE b

Line(trad, simp, pin, defs) ==
    [match |-> TRUE, traditional |-> trad, simplified |-> simp,
     pinyin_raw |-> pin, defs_raw |-> defs]

NoMatchLine ==
    [match |-> FALSE, traditional |-> "", simplified |-> "",
     pinyin_raw |-> <<>>, defs_raw |-> <<>>]

\* The lines a dictionary file is made of here: an entry for a curated word,
\* two entries with one identity key (fa1, fa4), a capitalised two-syllable
\* entry, an entry with classifier-only gloss, an entry with an out-of-range
\* tone digit, and a comment.
Lexicon ==
    { Line("AI_trad", "AI", <<"a", "i", "4">>, <<"to", " ", "love", "/", "affection">>),
      Line("FA_send", "FA", <<"f", "a", "1">>, <<"to", " ", "send">>),
      Line("FA_hair", "FA", <<"f", "a", "4">>, <<"hair">>),
      Line("ANHUI", "ANHUI", <<"A", "n", "1", " ", "h", "u", "i", "1">>,
           <<"Anhui", "/", "CL:", "x">>),
      Line("GE_trad", "GE", <<"g", "e", "4">>, <<"CL:", "x">>),
      Line("LIU", "LIU", <<"l", "i", "u", "6">>, <<"six">>),
      NoMatchLine }

CuratedAi ==
    [id |-> 1, chinese |-> "AI", traditional |-> "NULL",
     pinyin |-> <<"a^4", "i">>, pinyin_no_tones |-> <<>>,
     english |-> <<"love">>, hsk_level |-> 3,
     example_sentences |-> "examples_AI", updated_at |-> 0]

DictionaryFa ==
    [id |-> 2, chinese |-> "FA", traditional |-> "FA_send",
     pinyin |-> <<"f", "a^1">>, pinyin_no_tones |-> <<"f", "a">>,
     english |-> <<"emit">>, hsk_level |-> 0,
     example_sentences |-> ColumnDefault, updated_at |-> 0]

InitialStores == { {}, {CuratedAi}, {CuratedAi, DictionaryFa} }

InitRunVars ==
    /\ source \in SeqsUpTo(Lexicon, MaxLines) \ {<<>>}
    /\ store \in InitialStores
    /\ store0 = store
    /\ pc = [r \in Runs |-> "idle"]
    /\ entries = [r \in Runs |-> <<>>]
    /\ existing = [r \in Runs |-> <<>>]
    /\ update_rows = [r \in Runs |-> <<>>]
    /\ insert_rows = [r \in Runs |-> <<>>]
    /\ updated = [r \in Runs |-> 0]
    /\ inserted = [r \in Runs |-> 0]
    /\ tx_time = [r \in Runs |-> 0]
    /\ pre = [r \in Runs |-> {}]
    /\ seen = [r \in Runs |-> {}]
    /\ clock = 1
    /\ next_uuid = 10

\* Run r is between its start and its end.
Active(r) == pc[r] \in {"parsed", "loaded", "applying"}

NoOtherRun(r) == \A q \in Runs \ {r} : ~Active(q)

\* [2/4] the parsing loop.  (Runs start in the order of their numbers.)
Parse(r) ==
    /\ pc[r] = "idle"
    /\ \A q \in Runs : q < r => pc[q] # "idle"
    /\ \E p \in {ParseLines(source)} :
          IF p.ok
          THEN /\ entries' = [entries EXCEPT ![r] = p.val]
               /\ pc' = [pc EXCEPT ![r] = "parsed"]
          ELSE /\ pc' = [pc EXCEPT ![r] = "crashed"]
               /\ UNCHANGED entries
    /\ UNCHANGED <<existing, update_rows, insert_rows, updated, inserted,
                   tx_time, pre, seen, dbVars, toneVars, glossVars>>

\* existing = load_existing_entries(conn): the first statement of the run's
\* transaction; it reads the committed rows.
LoadExisting(r) ==
    /\ pc[r] = "parsed"
    /\ \E snapshot \in Snapshots(store) :
          existing' = [existing EXCEPT ![r] = snapshot]
    /\ pre' = [pre EXCEPT ![r] = store]
    /\ seen' = [seen EXCEPT ![r] = {q \in Runs : pc[q] = "done"}]
    /\ tx_time' = [tx_time EXCEPT ![r] = clock]
    /\ clock' = clock + 1
    /\ pc' = [pc EXCEPT ![r] = "loaded"]
    /\ UNCHANGED <<entries, update_rows, insert_rows, updated, inserted,
                   source, store, next_uuid, store0, toneVars, glossVars>>
\* Variant of Classify that looks keys up in the table as it is now.
ClassifyAgainstLiveTable(r) ==
    /\ pc[r] = "loaded"
    /\ \E live \in Snapshots(store) :
         \E c \in {ClassifyLoop(entries[r], live, next_uuid, <<>>, <<>>)} :
            /\ update_rows' = [update_rows EXCEPT ![r] = c.update_rows]
            /\ insert_rows' = [insert_rows EXCEPT ![r] = c.insert_rows]
            /\ next_uuid' = c.next_uuid
    /\ pc' = [pc EXCEPT ![r] = "applying"]
    /\ UNCHANGED <<entries, existing, updated, inserted, tx_time, pre, seen,
                   source, store, clock, store0, toneVars, glossVars>>

\* The classification loop: every candidate goes to update_rows or to
\* insert_rows by the snapshot alone.
Classify(r) ==
    /\ pc[r] = "loaded"
    /\ \E c \in {ClassifyLoop(entries[r], existing[r], next_uuid, <<>>, <<>>)} :
          /\ update_rows' = [update_rows EXCEPT ![r] = c.update_rows]
          /\ insert_rows' = [insert_rows EXCEPT ![r] = c.insert_rows]
          /\ next_uuid' = c.next_uuid
    /\ pc' = [pc EXCEPT ![r] = "applying"]
    /\ UNCHANGED <<entries, existing, updated, inserted, tx_time, pre, seen,
                   source, store, clock, store0, toneVars, glossVars>>

\* The ids run q has updated in its open transaction (row locks it holds).
LockedBy(q) ==
    IF pc[q] = "applying"
    THEN {update_rows[q][k].id : k \in 1..updated[q]}
    ELSE {}

\* One execute_batch of the update loop.  An UPDATE waits while another open
\* transaction holds the row.
UpdateBatch(r) ==
    /\ pc[r] = "applying"
    /\ updated[r] < Len(update_rows[r])
    /\ LET upto == Min(updated[r] + batch_size, Len(update_rows[r]))
       IN  /\ \A k \in (updated[r] + 1)..upto, q \in Runs \ {r} :
                 update_rows[r][k].id \notin LockedBy(q)
           /\ updated' = [updated EXCEPT ![r] = upto]
    /\ UNCHANGED <<pc, entries, existing, update_rows, insert_rows, inserted,
                   tx_time, pre, seen, dbVars, toneVars, glossVars>>

\* One execute_batch of the insert loop.
InsertBatch(r) ==
    /\ pc[r] = "applying"
    /\ updated[r] = Len(update_rows[r])
    /\ inserted[r] < Len(insert_rows[r])
    /\ inserted' = [inserted EXCEPT ![r] =
                       Min(inserted[r] + batch_size, Len(insert_rows[r]))]
    /\ UNCHANGED <<pc, entries, existing, update_rows, insert_rows, updated,
                   tx_time, pre, seen, dbVars, toneVars, glossVars>>

\* Variant of BatchFails with a commit after every batch.
BatchFailsKeepingEarlier(r) ==
    /\ pc[r] = "applying"
    /\ updated[r] < Len(update_rows[r]) \/ inserted[r] < Len(insert_rows[r])
    /\ pc' = [pc EXCEPT ![r] = "failed"]
    /\ store' = Executed(store, r, updated[r], inserted[r])
    /\ UNCHANGED <<entries, existing, update_rows, insert_rows, updated, inserted,
                   tx_time, pre, seen, source, clock, next_uuid, store0,
                   toneVars, glossVars>>

\* An execute_batch raises (constraint violation, lost connection): the
\* exception leaves main, conn.commit() is never reached and the
\* transaction, with every batch executed so far, is rolled back.
BatchFails(r) ==
    /\ pc[r] = "applying"
    /\ updated[r] < Len(update_rows[r]) \/ inserted[r] < Len(insert_rows[r])
    /\ pc' = [pc EXCEPT ![r] = "failed"]
    /\ UNCHANGED <<entries, existing, update_rows, insert_rows, updated, inserted,
                   tx_time, pre, seen, dbVars, toneVars, glossVars>>

\* conn.commit(): every update and insert of the run becomes visible at once.
Commit(r) ==
    /\ pc[r] = "applying"
    /\ updated[r] = Len(update_rows[r])
    /\ inserted[r] = Len(insert_rows[r])
    /\ store' = Executed(store, r, updated[r], inserted[r])
    /\ pc' = [pc EXCEPT ![r] = "done"]
    /\ UNCHANGED <<entries, existing, update_rows, insert_rows, updated, inserted,
                   tx_time, pre, seen, source, clock, next_uuid, store0,
                   toneVars, glossVars>>

----------------------------------------------------------------------------
(* Specifications *)

ToneIdle ==
    /\ token = <<>> /\ result = Returned(<<>>) /\ stripped = <<>>
    /\ keyed = <<>> /\ stage = "off"

GlossIdle == defs_raw = <<>> /\ cleaned = <<>> /\ gstage = "off"

RunsIdle ==
    /\ source = <<>> /\ store = {} /\ store0 = {}
    /\ pc = [r \in Runs |-> "off"]
    /\ entries = [r \in Runs |-> <<>>]
    /\ existing = [r \in Runs |-> <<>>]
    /\ update_rows = [r \in Runs |-> <<>>]
    /\ insert_rows = [r \in Runs |-> <<>>]
    /\ updated = [r \in Runs |-> 0]
    /\ inserted = [r \in Runs |-> 0]
    /\ tx_time = [r \in Runs |-> 0]
    /\ pre = [r \in Runs |-> {}]
    /\ seen = [r \in Runs |-> {}]
    /\ clock = 1
    /\ next_uuid = 10

\* Runs one after the other (the operational precondition of the importer).
Init == InitRunVars /\ ToneIdle /\ GlossIdle

Next ==
    \E r \in Runs :
        \/ Parse(r) /\ NoOtherRun(r)
        \/ LoadExisting(r)
        \/ Classify(r)
        \/ UpdateBatch(r)
        \/ InsertBatch(r)
        \/ BatchFails(r)
        \/ Commit(r)

Spec == Init /\ [][Next]_vars

\* Runs that may overlap: nothing in main keeps a second process out.
NextConcurrent ==
    \E r \in Runs :
        \/ Parse(r)
        \/ LoadExisting(r)
        \/ Classify(r)
        \/ UpdateBatch(r)
        \/ InsertBatch(r)
        \/ BatchFails(r)
        \/ Commit(r)

SpecConcurrent == Init /\ [][NextConcurrent]_vars

\* The tone converter on every token.
InitTone == InitToneVars /\ GlossIdle /\ RunsIdle

NextTone ==
    \/ ToneConvert /\ UNCHANGED <<glossVars, runVars, dbVars>>
    \/ ToneStrip /\ UNCHANGED <<glossVars, runVars, dbVars>>
    \/ ToneKey /\ UNCHANGED <<glossVars, runVars, dbVars>>

SpecTone == InitTone /\ [][NextTone]_vars

\* The gloss cleaner on every gloss text.
InitGloss == InitGlossVars /\ ToneIdle /\ RunsIdle

NextGloss == GlossClean /\ UNCHANGED <<toneVars, runVars, dbVars>>

SpecGloss == InitGloss /\ [][NextGloss]_vars

----------------------------------------------------------------------------
(* Properties of the import run *)

Ids(rows) == {row.id : row \in rows}

IdentityUnique(rows) == \A a, b \in rows : RowKey(a) = RowKey(b) => a = b

\* No run other than those r saw committed has committed.
NothingCommittedSince(r) == \A q \in Runs \ {r} : pc[q] = "done" => q \in seen[r]

\* C1: every row that was in the table before the runs is still there, once,
\* with its hsk_level, example_sentences, chinese, pinyin and pinyin_no_tones
\* as they were; only english, traditional and updated_at may differ.
C1_CuratedFieldsPreserved ==
    \A old \in store0 :
        /\ Cardinality({row \in store : row.id = old.id}) = 1
        /\ \A row \in store :
              row.id = old.id =>
                 /\ row.hsk_level = old.hsk_level
                 /\ row.example_sentences = old.example_sentences
                 /\ row.chinese = old.chinese
                 /\ row.pinyin = old.pinyin
                 /\ row.pinyin_no_tones = old.pinyin_no_tones

\* A curated row has been rewritten by a committed update, two runs done.
C1_Witness ==
    /\ pc[1] = "done" /\ pc[2] = "done"
    /\ \E old \in store0, row \in store :
          /\ row.id = old.id /\ old.hsk_level >= 1
          /\ row.english # old.english /\ row.traditional # old.traditional

\* C2: a second run on the unchanged source, after the first, puts every
\* candidate in the update batch, inserts nothing and leaves english and
\* traditional of every row as the first run left them.
C2_SecondRunChangesNothing ==
    (pc[1] = "done" /\ pc[2] = "done") =>
        /\ insert_rows[2] = <<>>
        /\ Len(update_rows[2]) = Len(entries[2])
        /\ Ids(store) = Ids(pre[2])
        /\ \A row \in store, old \in pre[2] :
              row.id = old.id =>
                 row.english = old.english /\ row.traditional = old.traditional

\* C3: one run on a table with unique identity pairs leaves the pairs unique.
C3_IdentityStaysUnique ==
    (IdentityUnique(store0) /\ pc[1] = "done" /\ pc[2] = "idle") =>
        IdentityUnique(store)

\* The key the claim gives a candidate: script form and the tone-stripped,
\* lower-cased, space-free pronunciation.
ClaimedKey(e) ==
    << e.simplified, RemoveChars(LowerText(strip_tones(e.pinyin)), {" "}) >>

\* C4: once a run has classified, the update batch is exactly the candidates
\* whose key is in the snapshot, in order, each with the snapshot's id, and
\* the insert batch is exactly the others, in order, each with hsk_level 0
\* and an id that no row and no other insert has; a committed insert has the
\* empty (default) example_sentences.
C4_ClassifiedBySnapshot ==
    \A r \in Runs :
        pc[r] \in {"applying", "done", "failed"} =>
            LET hits == SelectSeq(entries[r],
                                  LAMBDA e : ClaimedKey(e) \in DOMAIN existing[r])
                misses == SelectSeq(entries[r],
                                    LAMBDA e : ClaimedKey(e) \notin DOMAIN existing[r])
                ups == update_rows[r]
                ins == insert_rows[r]
            IN  /\ Len(ups) = Len(hits)
                /\ Len(ins) = Len(misses)
                /\ \A k \in 1..Len(hits) :
                      ups[k] = [english |-> hits[k].english,
                                traditional |-> hits[k].traditional,
                                id |-> existing[r][ClaimedKey(hits[k])].id]
                /\ \A k \in 1..Len(misses) :
                      /\ ins[k].chinese = misses[k].simplified
                      /\ ins[k].traditional = misses[k].traditional
                      /\ ins[k].pinyin = misses[k].pinyin
                      /\ ins[k].english = misses[k].english
                      /\ ins[k].hsk_level = 0
                      /\ ins[k].id \notin Ids(pre[r]) \cup Ids(store0)
                      /\ \A j \in 1..Len(misses) : j # k => ins[j].id # ins[k].id
                      /\ \A q \in Runs \ {r} :
                            \A j \in 1..Len(insert_rows[q]) :
                               insert_rows[q][j].id # ins[k].id
                      /\ pc[r] = "done" =>
                            \E row \in store :
                               /\ row.id = ins[k].id
                               /\ row.hsk_level = 0
                               /\ row.example_sentences = ColumnDefault

\* A run has classified one candidate as update and another as insert.
C4_Witness ==
    \E r \in Runs :
        /\ pc[r] = "done"
        /\ Len(update_rows[r]) >= 1
        /\ Len(insert_rows[r]) >= 1

InsertedIds(r) == {insert_rows[r][k].id : k \in 1..Len(insert_rows[r])}

\* C6: a run's snapshot never holds a row another run committed after the
\* snapshot was taken; two committed runs that both took their snapshot
\* before either committed each insert a row for every candidate key absent
\* from both snapshots, so the table holds two rows with that identity; a run
\* whose snapshot was taken after the other run committed inserts nothing.
C6_OverlapDuplicatesSequentialNone ==
    \A r \in Runs, q \in Runs :
        r # q =>
            /\ (pc[r] \in {"loaded", "applying", "done", "failed"} /\ q \notin seen[r]) =>
                  \A k \in DOMAIN existing[r] : existing[r][k].id \notin InsertedIds(q)
            /\ (pc[r] = "done" /\ pc[q] = "done" /\ q \notin seen[r] /\ r \notin seen[q]) =>
                  \A n \in 1..Len(entries[r]) :
                     LET key == ClaimedKey(entries[r][n])
                     IN  (key \notin DOMAIN existing[r] /\ key \notin DOMAIN existing[q]) =>
                            \E a \in store, b \in store :
                               /\ a.id \in InsertedIds(r) /\ b.id \in InsertedIds(q)
                               /\ RowKey(a) = key /\ RowKey(b) = key
            /\ (pc[r] = "done" /\ pc[q] = "done" /\ q \in seen[r]) =>
                  insert_rows[r] = <<>>

\* Two overlapping runs have both committed an insert for one key.
C6_Witness ==
    /\ pc[1] = "done" /\ pc[2] = "done"
    /\ 1 \notin seen[2] /\ 2 \notin seen[1]
    /\ IdentityUnique(store0)
    /\ \E a \in store, b \in store :
          /\ a.id \in InsertedIds(1) /\ b.id \in InsertedIds(2)
          /\ RowKey(a) = RowKey(b)

----------------------------------------------------------------------------
(* Properties of the gloss cleaner *)

\* An inline classifier annotation CL:token[,token...] somewhere in d.
HasInlineClassifier(d) ==
    \E k \in 1..Len(d) : d[k] = "CL:" /\ k < Len(d) /\ IsTokenChar(d[k + 1])

\* C7: every fragment clean_definitions returns is non-empty, trimmed, free
\* of inline classifier annotations and begins with none of the five
\* skipped prefixes.
C7_FragmentsClean ==
    gstage = "cleaned" =>
        \A k \in 1..Len(cleaned) :
            LET d == cleaned[k]
            IN  /\ d # <<>>
                /\ Strip(d) = d
                /\ ~HasInlineClassifier(d)
                /\ ~StartsWith(d, PrefixCL)
                /\ ~StartsWith(d, PrefixVariantOf)
                /\ ~StartsWith(d, PrefixSeeAlso)
                /\ ~StartsWith(d, PrefixAlsoWritten)
                /\ ~StartsWith(d, PrefixOldVariantOf)

----------------------------------------------------------------------------
(* Properties of the tone converter *)

\* The token is letters followed by one digit.
IsNumbered(tok) ==
    /\ Len(tok) >= 2
    /\ \A k \in 1..(Len(tok) - 1) : IsSyllableLetter(tok[k])
    /\ tok[Len(tok)] \in DigitChars

LettersOf(tok) == Take(tok, Len(tok) - 1)

ToneOf(tok) == DigitValue(tok[Len(tok)])

DiffPositions(a, b) == {k \in 1..Len(a) : a[k] # b[k]}

\* The vowel c with the diacritic of tone t, in the case of c.
Toned(c, t) ==
    LET m == CHOOSE x \in DOMAIN replacements :
                 /\ replacements[x] = LowerChar(c)
                 /\ x = tone_map[LowerChar(c)][t]
    IN  IF IsUpperChar(c) THEN UpperChar(m) ELSE m

SixVowels == {"a", "e", "i", "o", "u", "ue"}

LastIn(lower, set) ==
    CHOOSE j \in 1..Len(lower) :
        lower[j] \in set /\ \A k \in (j + 1)..Len(lower) : lower[k] \notin set

\* Position p is the one the stated priority selects.
ClaimedPosition(lower, p) ==
    IF \E k \in 1..Len(lower) : lower[k] = "a" THEN lower[p] = "a"
    ELSE IF \E k \in 1..Len(lower) : lower[k] = "e" THEN lower[p] = "e"
    ELSE IF Contains(lower, <<"o", "u">>)
         THEN lower[p] = "o" /\ p < Len(lower) /\ lower[p + 1] = "u"
    ELSE p = LastIn(lower, SixVowels)

\* C8 as stated: a numbered syllable with tone 1..4 and one of a, e, i, o, u,
\* u-umlaut comes back changed in exactly one position, the one the priority
\* selects, to the original vowel with the tone's diacritic in the original
\* case; with digit 5 or 0 the letters come back unchanged.
C8_OneVowelMarked ==
    (stage = "converted" /\ IsNumbered(token)) =>
        LET letters == LettersOf(token)
            lower == LowerText(letters)
            tone == ToneOf(token)
        IN  /\ tone \in {0, 5} => result.val = letters
            /\ (tone \in 1..4 /\ \E k \in 1..Len(lower) : lower[k] \in SixVowels) =>
                  /\ Len(result.val) = Len(letters)
                  /\ \E p \in 1..Len(letters) :
                        /\ DiffPositions(result.val, letters) = {p}
                        /\ ClaimedPosition(lower, p)
                        /\ lower[p] \in SixVowels
                        /\ result.val[p] = Toned(letters[p], tone)

\* v stands for u-umlaut.
BaseVowel(c) == IF LowerChar(c) = "v" THEN (IF IsUpperChar(c) THEN "UE" ELSE "ue") ELSE c

SevenVowels == SixVowels \cup {"v"}

\* The position the code's priority selects: an a; else an e; else, when
\* "ou" occurs, the first o; else the last of a, e, i, o, u, u-umlaut, v.
AmendedPosition(lower, p) ==
    IF \E k \in 1..Len(lower) : lower[k] = "a" THEN lower[p] = "a"
    ELSE IF \E k \in 1..Len(lower) : lower[k] = "e" THEN lower[p] = "e"
    ELSE IF Contains(lower, <<"o", "u">>)
         THEN lower[p] = "o" /\ \A k \in 1..(p - 1) : lower[k] # "o"
    ELSE p = LastIn(lower, SevenVowels)

\* C8 amended: as C8, with v counted among the vowels and marked as a toned
\* u-umlaut, and with the first o of the syllable marked when "ou" occurs.
C8_OneVowelMarkedAmended ==
    (stage = "converted" /\ IsNumbered(token)) =>
        LET letters == LettersOf(token)
            lower == LowerText(letters)
            tone == ToneOf(token)
        IN  /\ tone \in {0, 5} => result.val = letters
            /\ (tone \in 1..4 /\ \E k \in 1..Len(lower) : lower[k] \in SevenVowels) =>
                  /\ Len(result.val) = Len(letters)
                  /\ \E p \in 1..Len(letters) :
                        /\ DiffPositions(result.val, letters) = {p}
                        /\ AmendedPosition(lower, p)
                        /\ result.val[p] = Toned(BaseVowel(letters[p]), tone)

\* A capitalised syllable with two vowels and "ou" has been converted.
C8_Witness ==
    /\ stage = "converted"
    /\ token = <<"A", "o", "u", "3">>
    /\ result.val = <<"A^3", "o", "u">>

\* The set of toned characters, either case.
TonedChars == DOMAIN replacements \cup {UpperChar(c) : c \in DOMAIN replacements}

\* C9: for a numbered syllable the matching key built from the converted
\* syllable is the original letters in lower case, with no toned character
\* and no digit in it.
C9_StripInvertsConvert ==
    (stage = "keyed" /\ IsNumbered(token)) =>
        /\ keyed = LowerText(LettersOf(token))
        /\ \A k \in 1..Len(keyed) : keyed[k] \notin TonedChars \cup DigitChars

\* C10: convert_syllable returns for every token, and returns the unmarked
\* letters when the syllable has no vowel to mark.
C10_ConversionTotal ==
    stage # "input" =>
        /\ result.ok
        /\ stage # "raised"
        /\ (IsNumbered(token) /\
            \A k \in 1..(Len(token) - 1) : LowerChar(token[k]) \notin SevenVowels) =>
               result.val = LettersOf(token)

\* C11: every row a committed run has inserted stores a pinyin_no_tones that
\* is the normalized key the matcher classified its candidate under: the
\* pronunciation with tone marks removed, in lower case and without spaces.
C11_StoredKeyIsNormalizedKey ==
    \A r \in Runs :
        pc[r] = "done" =>
            \A row \in store :
                row.id \in InsertedIds(r) =>
                    /\ row.pinyin_no_tones = NormalizedKey(row.pinyin)
                    /\ \A k \in 1..Len(row.pinyin_no_tones) :
                          /\ row.pinyin_no_tones[k] \notin TonedChars \cup {" "}
                          /\ ~IsUpperChar(row.pinyin_no_tones[k])

====
